---------------------------- MODULE Spec2Model ----------------------------
(***************************************************************************)
(* Model of the transcript synchronisation pipeline of                     *)
(* claude_code_transcripts (sync.py, models.py): the per-session loop of    *)
(* sync_local_sessions / sync_web_sessions, sync_all, store_embeddings and  *)
(* the SQLAlchemy session (one transaction view over the committed rows).   *)
(***************************************************************************)
EXTENDS Integers, Sequences, FiniteSets, TLC

(***************************************************************************)
(* Bounds of the model.                                                     *)
(***************************************************************************)
MaxRuns == 2
MaxSessions == 2
MaxChanges == 1
MaxLoglines == 7
MaxStored == 3
SmallPage == 2
MaxLimit == 3
MaxCalls == 5

(***************************************************************************)
(* Program constants.                                                       *)
(***************************************************************************)
DefaultLimit == 100
PromptsPerPage == 5
QueryChars == 1000
StoredChars == 500
PreviewChars == 200

Sessions == {"s1", "s2"}

(***************************************************************************)
(* Python values.  A string is a prefix of a named base text: Str(b, n) is  *)
(* the first n characters of the text b; the base "ws" is whitespace only.  *)
(* None, a string and a structured (list) content share one record shape.   *)
(***************************************************************************)
None == [kind |-> "none", base |-> "", len |-> 0]
Str(b, n) == [kind |-> "str", base |-> (IF n = 0 THEN "" ELSE b), len |-> n]
Struct == [kind |-> "struct", base |-> "", len |-> 1]
EmptyStr == Str("", 0)

Min(a, b) == IF a <= b THEN a ELSE b

\* s[:n] on a string
Slice(s, n) == Str(s.base, Min(s.len, n))

\* bool(x) for None, a string or a list
Truthy(x) == x.kind # "none" /\ x.len > 0

\* isinstance(x, str)
IsStr(x) == x.kind = "str"

\* x.strip() on a string
Strip(x) == IF x.base = "ws" THEN EmptyStr ELSE x

\* x or ""
OrEmpty(x) == IF Truthy(x) THEN x ELSE EmptyStr

(***************************************************************************)
(* Transcripts a session file or the API can hold: sequences of loglines,   *)
(* each logline given by its "content" value.                               *)
(***************************************************************************)
Hello == << Str("hello", 5) >>

Transcripts ==
  { Hello,
    << Str("hello", 5), Struct >>,
    << Str("ws", 2), Struct, Str("essay", 1200) >>,
    <<>> }

\* the summary find_local_sessions reports for a session: one has a long
\* summary, the other none
SummaryOf(sid) == IF sid = "s1" THEN Str("story", 600) ELSE None

\* claude projects path of a session file, and Path(session_path).stem
SessionPath(sid) == << "projects", sid >>
Stem(path) == path[2]

\* os.path.join(storage_path, session_id)
OutputDir(sid) == << "storage_path", sid >>

(***************************************************************************)
(* Rows.  NoRow is Python's None for "no Conversation found".               *)
(***************************************************************************)
NoRow ==
  [id |-> 0, session_id |-> "", source |-> "", last_updated |-> 0,
   message_count |-> 0, html_path |-> <<>>, first_message |-> None,
   created_at |-> 0]

\* Conversation(...) with the autoincrement id and the created_at default
Conversation(id, sid, source, t, mc, path, fm) ==
  [id |-> id, session_id |-> sid, source |-> source, last_updated |-> t,
   message_count |-> mc, html_path |-> path, first_message |-> fm,
   created_at |-> t]

\* EmbeddingService.encode_single: the vector of a text
encode_single(text) == << "vec", text >>

\* EmbeddingService.encode_batch: one vector per text, in order
encode_batch(texts) == [i \in 1..Len(texts) |-> encode_single(texts[i])]

\* ConversationEmbedding(...); the surrogate id is never read and left out
ConversationEmbedding(cid, text, emb, t) ==
  [conversation_id |-> cid, summary_text |-> text, embedding |-> emb,
   created_at |-> t]

\* MessageEmbedding(...); the surrogate id is never read and left out
MessageEmbedding(cid, msg_idx, text, emb, page, t) ==
  [conversation_id |-> cid, message_index |-> msg_idx, message_text |-> text,
   embedding |-> emb, page_number |-> page, created_at |-> t]

EmptyDb == [convs |-> <<>>, cemb |-> <<>>, memb |-> <<>>]

(***************************************************************************)
(* needs_update and extract_user_queries, as sync.py computes them.         *)
(***************************************************************************)
\* mutant: the count compared is the count of user queries
needs_update_Eligible(existing, session_data) ==
  IF existing = NoRow
    THEN TRUE
    ELSE Len(SelectSeq(session_data.loglines,
                       LAMBDA c : IsStr(c) /\ Truthy(Strip(c))))
           # existing.message_count

\* mutant: a new session needs an update only when it has loglines
needs_update_NewOnlyIfMessages(existing, session_data) ==
  IF existing = NoRow
    THEN Len(session_data.loglines) # 0
    ELSE Len(session_data.loglines) # existing.message_count

\* mutant: a session whose count did not fall is taken to need an update
needs_update_NotFewer(existing, session_data) ==
  IF existing = NoRow
    THEN TRUE
    ELSE Len(session_data.loglines) >= existing.message_count

\* mutant: every session is taken to need an update
needs_update_Always(existing, session_data) == TRUE

needs_update(existing, session_data) ==
  IF existing = NoRow
    THEN TRUE
    ELSE Len(session_data.loglines) # existing.message_count

RECURSIVE ExtractLoop_PageByIndex(_, _, _, _, _)
\* mutant: the page is computed from message_index, not from prompt_count
ExtractLoop_PageByIndex(loglines, i, prompt_count, user_queries, prompts_per_page) ==
  IF i > Len(loglines)
    THEN user_queries
    ELSE LET content == loglines[i]
         IN IF IsStr(content) /\ Truthy(Strip(content))
              THEN ExtractLoop_PageByIndex(loglines, i + 1, prompt_count + 1,
                     Append(user_queries,
                       [message_index |-> i - 1,
                        text |-> Slice(content, QueryChars),
                        page_number |-> ((i - 1) \div prompts_per_page) + 1]),
                     prompts_per_page)
              ELSE ExtractLoop_PageByIndex(loglines, i + 1, prompt_count,
                                           user_queries, prompts_per_page)

RECURSIVE ExtractLoop_IndexInsideIf(_, _, _, _, _)
\* mutant: message_index += 1 sits inside the if, so it counts the eligible
\* loglines only
ExtractLoop_IndexInsideIf(loglines, i, prompt_count, user_queries, prompts_per_page) ==
  IF i > Len(loglines)
    THEN user_queries
    ELSE LET content == loglines[i]
         IN IF IsStr(content) /\ Truthy(Strip(content))
              THEN ExtractLoop_IndexInsideIf(loglines, i + 1, prompt_count + 1,
                     Append(user_queries,
                       [message_index |-> prompt_count,
                        text |-> Slice(content, QueryChars),
                        page_number |-> (prompt_count \div prompts_per_page) + 1]),
                     prompts_per_page)
              ELSE ExtractLoop_IndexInsideIf(loglines, i + 1, prompt_count,
                                             user_queries, prompts_per_page)

RECURSIVE ExtractLoop(_, _, _, _, _)
\* the for loop of extract_user_queries from logline i (1-based) on, with
\* message_index = i - 1 and the running prompt_count
ExtractLoop(loglines, i, prompt_count, user_queries, prompts_per_page) ==
  IF i > Len(loglines)
    THEN user_queries
    ELSE LET content == loglines[i]
         IN IF IsStr(content) /\ Truthy(Strip(content))
              THEN ExtractLoop(loglines, i + 1, prompt_count + 1,
                     Append(user_queries,
                       [message_index |-> i - 1,
                        text |-> Slice(content, QueryChars),
                        page_number |-> (prompt_count \div prompts_per_page) + 1]),
                     prompts_per_page)
              ELSE ExtractLoop(loglines, i + 1, prompt_count, user_queries,
                               prompts_per_page)

extract_user_queries(session_data, prompts_per_page) ==
  ExtractLoop(session_data.loglines, 1, 0, <<>>, prompts_per_page)

RECURSIVE FirstStringContent(_, _)
\* the first_message loop of sync_web_sessions
FirstStringContent(loglines, i) ==
  IF i > Len(loglines)
    THEN None
    ELSE IF IsStr(loglines[i]) /\ Truthy(loglines[i])
           THEN Slice(loglines[i], PreviewChars)
           ELSE FirstStringContent(loglines, i + 1)

\* first_message of the local source: summary[:200] if summary else None
LocalFirstMessage(summary) ==
  IF Truthy(summary) THEN Slice(summary, PreviewChars) ELSE None

(***************************************************************************)
(* The database session: queries and writes on a transaction view.          *)
(***************************************************************************)
RECURSIVE FirstMatch(_, _, _)
FirstMatch(rows, sid, i) ==
  IF i > Len(rows)
    THEN NoRow
    ELSE IF rows[i].session_id = sid THEN rows[i] ELSE FirstMatch(rows, sid, i + 1)

\* mutant: the lookup filters on a column that never matches
QueryConversation_Miss(view, sid) == FirstMatch(<<>>, sid, 1)

\* db_session.query(Conversation).filter_by(session_id=session_id).first()
QueryConversation(view, sid) == FirstMatch(view.convs, sid, 1)

\* mutant: the update stamps created_at as well
UpdateConversation_ResetsCreated(view, existing, t, mc, path, fm) ==
  [view EXCEPT !.convs =
     [i \in 1..Len(view.convs) |->
        IF view.convs[i].id = existing.id
          THEN [view.convs[i] EXCEPT !.last_updated = t, !.message_count = mc,
                                     !.html_path = path, !.first_message = fm,
                                     !.created_at = t]
          ELSE view.convs[i]]]

\* the attribute assignments on an existing Conversation
UpdateConversation(view, existing, t, mc, path, fm) ==
  [view EXCEPT !.convs =
     [i \in 1..Len(view.convs) |->
        IF view.convs[i].id = existing.id
          THEN [view.convs[i] EXCEPT !.last_updated = t, !.message_count = mc,
                                     !.html_path = path, !.first_message = fm]
          ELSE view.convs[i]]]

\* db_session.add(conversation); db_session.flush(): the id is the next
\* value of the autoincrement column
AddConversation(view, sid, source, t, mc, path, fm) ==
  [view EXCEPT !.convs =
     Append(view.convs,
            Conversation(Len(view.convs) + 1, sid, source, t, mc, path, fm))]

NotOf(cid, row) == row.conversation_id # cid

\* mutants: one of the two deletes, or both, left out
DeleteEmbeddings_KeepMessages(view, cid) ==
  [view EXCEPT !.cemb = SelectSeq(view.cemb, LAMBDA r : NotOf(cid, r))]

DeleteEmbeddings_KeepSummary(view, cid) ==
  [view EXCEPT !.memb = SelectSeq(view.memb, LAMBDA r : NotOf(cid, r))]

DeleteEmbeddings_Nothing(view, cid) == view

\* the two query(...).filter_by(conversation_id=...).delete() calls
DeleteEmbeddings(view, cid) ==
  [view EXCEPT !.cemb = SelectSeq(view.cemb, LAMBDA r : NotOf(cid, r)),
               !.memb = SelectSeq(view.memb, LAMBDA r : NotOf(cid, r))]

\* db_session.add(conv_embedding)
AddConversationEmbedding(view, cid, summary_text, t) ==
  [view EXCEPT !.cemb =
     Append(view.cemb,
            ConversationEmbedding(cid, Slice(summary_text, StoredChars),
                                  encode_single(summary_text), t))]

\* the zip loop of store_embeddings: one MessageEmbedding per user query
AddMessageEmbeddings(view, cid, user_queries, t) ==
  LET messages == [i \in 1..Len(user_queries) |-> user_queries[i].text]
      embeddings == encode_batch(messages)
      n == Min(Len(user_queries), Len(embeddings))
  IN [view EXCEPT !.memb =
        view.memb \o
        [i \in 1..n |->
           MessageEmbedding(cid, user_queries[i].message_index,
                            Slice(user_queries[i].text, StoredChars),
                            embeddings[i], user_queries[i].page_number, t)]]

\* rows of one conversation
CembOf(view, cid) == SelectSeq(view.cemb, LAMBDA r : r.conversation_id = cid)
MembOf(view, cid) == SelectSeq(view.memb, LAMBDA r : r.conversation_id = cid)

(***************************************************************************)
(* State.                                                                   *)
(***************************************************************************)
VARIABLES
  data,           \* session id -> transcript that parse/fetch returns
  changes,        \* number of transcript changes so far
  now,            \* datetime.utcnow(), one tick per sync function call
  db,             \* committed rows of the three tables
  tx,             \* the rows db_session sees: committed plus uncommitted
  txAborted,      \* the transaction failed and awaits a rollback
  allPc,          \* sync_all: "none", "local" or "web" part running
  fn,             \* running sync function: "idle", "local", "web"
  pc,             \* position inside the running function
  sessions,       \* the for loop's iterator: the entries still to come
  updated_count,
  fr,             \* locals of the current iteration
  result,         \* what the last call returned
  raised,         \* an exception left the last call
  runStart,       \* the committed rows when the running function was called
  hist,           \* per conversation id: the last store_embeddings call
  fnArgs,         \* arguments of a call of needs_update or extract_user_queries
  fnRet,          \* what that call returned
  geometry,       \* cosine distance of each stored vector to the query's vector
  searchArgs,     \* the query and limit arguments of search_transcripts
  searched,       \* search_transcripts has returned
  results,        \* the list it returned
  cached,         \* the module global _embedding_service: an instance or 0
  instances,      \* the EmbeddingService objects created so far
  embedding_service,  \* the instance the caller got from its last call
  calls           \* the calls made so far, in order

\* the state of a sync run
syncVars ==
  << data, changes, now, db, tx, txAborted, allPc, fn, pc, sessions,
     updated_count, fr, result, raised, runStart, hist >>

\* the state of direct calls of the module's other functions
fnVars == << fnArgs, fnRet >>
searchVars == << geometry, searchArgs, searched, results >>
serviceVars == << cached, instances, embedding_service, calls >>
libVars == << fnVars, searchVars, serviceVars >>

vars == << syncVars, libVars >>

ConvIds == 1..Cardinality(Sessions)

Frame0 ==
  [session_path |-> <<>>, session_id |-> "", summary |-> None,
   session_data |-> [loglines |-> <<>>], existing |-> NoRow,
   message_count |-> 0, first_message |-> None, conversation_id |-> 0,
   summary_text |-> EmptyStr, user_queries |-> <<>>, failed |-> "",
   retval |-> 0]

Result0 ==
  [of |-> "", value |-> 0, local_updated |-> 0, web_updated |-> 0, total_updated |-> 0]

Hist0 ==
  [called |-> FALSE, before |-> [cemb |-> <<>>, memb |-> <<>>],
   new |-> [cemb |-> <<>>, memb |-> <<>>],
   summary_text |-> EmptyStr, user_queries |-> <<>>, ok |-> FALSE,
   after |-> [cemb |-> <<>>, memb |-> <<>>],
   prev |-> [ok |-> FALSE, summary_text |-> EmptyStr, user_queries |-> <<>>,
             cemb |-> <<>>, memb |-> <<>>]]

\* no function has been called directly
NoCall == [of |-> "", value |-> <<>>]
NoArgs ==
  [of |-> "", existing |-> NoRow, session_data |-> [loglines |-> <<>>],
   prompts_per_page |-> PromptsPerPage]

FnIdle ==
  /\ fnArgs = NoArgs
  /\ fnRet = NoCall

SearchIdle ==
  /\ geometry = <<>>
  /\ searchArgs = [query |-> EmptyStr, limit |-> 0]
  /\ searched = FALSE
  /\ results = <<>>

\* the module has been imported: _embedding_service = None
ServiceIdle ==
  /\ cached = 0
  /\ instances = <<>>
  /\ embedding_service = 0
  /\ calls = <<>>

LibIdle == FnIdle /\ SearchIdle /\ ServiceIdle

\* no sync function running on a database that holds the given rows
SyncIdleOn(rows) ==
  /\ data = [s \in Sessions |-> Hello]
  /\ changes = 0
  /\ now = 0
  /\ db = rows
  /\ tx = rows
  /\ txAborted = FALSE
  /\ allPc = "none"
  /\ fn = "idle"
  /\ pc = "idle"
  /\ sessions = <<>>
  /\ updated_count = 0
  /\ fr = Frame0
  /\ result = Result0
  /\ raised = FALSE
  /\ runStart = EmptyDb
  /\ hist = [c \in ConvIds |-> Hist0]

\* a fresh database and no sync function running
SyncIdle == SyncIdleOn(EmptyDb)

Init == SyncIdle /\ LibIdle

(***************************************************************************)
(* Exceptions: the try block that encloses each raising place.              *)
(***************************************************************************)
EnumPlaces == {"find_local_sessions", "resolve_credentials", "fetch_sessions"}
SessionPlaces == {"parse", "query", "render", "flush", "commit"}
EmbedPlaces == {"get_embedding_service", "delete", "encode_single", "encode_batch", "emb_commit"}

\* mutant: the renderer is called inside the inner try block
Catch_RenderInner(place) ==
  CASE place \in EnumPlaces -> "enum_except"
    [] place \in SessionPlaces \ {"render"} -> "except"
    [] place \in EmbedPlaces \cup {"render"} -> "emb_except"
    [] OTHER -> "caller"

\* mutant: the enumeration is outside any try block
Catch_NoEnumTry(place) ==
  CASE place \in SessionPlaces -> "except"
    [] place \in EmbedPlaces -> "emb_except"
    [] OTHER -> "caller"

\* mutant: the session loop body has no try block of its own
Catch_NoSessionTry(place) ==
  CASE place \in EnumPlaces -> "enum_except"
    [] place \in EmbedPlaces -> "emb_except"
    [] OTHER -> "caller"

\* the handler of an exception raised at a place of sync_local_sessions or
\* sync_web_sessions; "caller" when no try block encloses the place
Catch(place) ==
  CASE place \in EnumPlaces -> "enum_except"
    [] place \in SessionPlaces -> "except"
    [] place \in EmbedPlaces -> "emb_except"
    [] OTHER -> "caller"

Goto(p) == pc' = p /\ UNCHANGED << fn, allPc, raised >>

\* an exception raised at a place: to its handler, or out of the function
\* (and out of sync_all, which has no try block)
Raise(place) ==
  IF Catch(place) = "caller"
    THEN pc' = "returned" /\ fn' = "idle" /\ allPc' = "none" /\ raised' = TRUE
    ELSE Goto(Catch(place))

\* the session list entries the enumerators can return
LocalEntries ==
  { [path |-> SessionPath(s), summary |-> SummaryOf(s)] : s \in Sessions }
WebEntries == [session_id : Sessions \cup {""}]

SeqsUpTo(S, n) == UNION {[1..k -> S] : k \in 0..n}

(***************************************************************************)
(* The environment: a transcript changes between two calls.                 *)
(***************************************************************************)
ChangeData ==
  /\ pc = "idle"
  /\ now < MaxRuns
  /\ changes < MaxChanges
  /\ changes' = changes + 1
  /\ \E s \in Sessions, t \in Transcripts :
       /\ t # data[s]
       /\ data' = [data EXCEPT ![s] = t]
  /\ UNCHANGED << libVars, now, db, tx, txAborted, allPc, fn, pc, sessions,
                  updated_count, fr, result, raised, runStart, hist >>

(***************************************************************************)
(* Calls of the three entry points.                                         *)
(***************************************************************************)
\* entering sync_local_sessions or sync_web_sessions on the shared db_session
Enter(f) ==
  /\ fn' = f
  /\ pc' = "enum"
  /\ now' = now + 1
  /\ sessions' = <<>>
  /\ updated_count' = 0
  /\ fr' = Frame0
  /\ runStart' = db
  /\ UNCHANGED << libVars, data, changes, db, tx, txAborted, hist >>

CallSyncLocal ==
  /\ pc = "idle" /\ now < MaxRuns
  /\ Enter("local")
  /\ UNCHANGED << raised, result >>
  /\ UNCHANGED allPc

CallSyncWeb ==
  /\ pc = "idle" /\ now < MaxRuns
  /\ Enter("web")
  /\ UNCHANGED << raised, result >>
  /\ UNCHANGED allPc

\* sync_all: calls sync_local_sessions first
CallSyncAll ==
  /\ pc = "idle" /\ now + 1 < MaxRuns
  /\ Enter("local")
  /\ allPc' = "local"
  /\ UNCHANGED << raised, result >>

(***************************************************************************)
(* Enumeration of the sessions.                                             *)
(***************************************************************************)
EnumerateLocal ==
  /\ fn = "local" /\ pc = "enum"
  /\ \/ /\ fr' = [fr EXCEPT !.failed = "find_local_sessions"]
        /\ Raise("find_local_sessions")
        /\ UNCHANGED << sessions, updated_count >>
     \/ /\ \E found \in SeqsUpTo(LocalEntries, MaxSessions) : sessions' = found
        /\ updated_count' = 0
        /\ Goto("loop")
        /\ UNCHANGED fr
  /\ UNCHANGED << libVars, data, changes, now, db, tx, txAborted, result, runStart, hist >>

\* sessions[:limit]
Take(list, limit) == SubSeq(list, 1, Min(Len(list), limit))

\* the limit argument: sync_all leaves it at its default
Limits(caller) == IF caller = "web" THEN {DefaultLimit} ELSE {1, DefaultLimit}

EnumerateWeb ==
  /\ fn = "web" /\ pc = "enum"
  /\ \/ /\ fr' = [fr EXCEPT !.failed = "resolve_credentials"]
        /\ Raise("resolve_credentials")
        /\ UNCHANGED << sessions, updated_count >>
     \/ /\ fr' = [fr EXCEPT !.failed = "fetch_sessions"]
        /\ Raise("fetch_sessions")
        /\ UNCHANGED << sessions, updated_count >>
     \/ /\ \E fetched \in SeqsUpTo(WebEntries, MaxSessions),
                limit \in Limits(allPc) :
             sessions' = Take(fetched, limit)
        /\ updated_count' = 0
        /\ Goto("loop")
        /\ UNCHANGED fr
  /\ UNCHANGED << libVars, data, changes, now, db, tx, txAborted, result, runStart, hist >>

\* except Exception: print(...); return 0
EnumExcept ==
  /\ pc = "enum_except"
  /\ fr' = [fr EXCEPT !.retval = 0]
  /\ Goto("return")
  /\ UNCHANGED << libVars, data, changes, now, db, tx, txAborted, sessions, updated_count,
                  result, runStart, hist >>

(***************************************************************************)
(* The for loop over the sessions.                                          *)
(***************************************************************************)
\* next list entry, or return updated_count after the last one
LoopHead ==
  /\ pc = "loop"
  /\ IF sessions = <<>>
       THEN /\ fr' = [fr EXCEPT !.retval = updated_count]
            /\ Goto("return")
            /\ UNCHANGED sessions
       ELSE /\ sessions' = Tail(sessions)
            /\ IF fn = "local"
                 THEN /\ fr' = [Frame0 EXCEPT
                                  !.session_path = Head(sessions).path,
                                  !.summary = Head(sessions).summary]
                      /\ Goto("parse")
                 ELSE IF Head(sessions).session_id = ""
                   THEN \* if not session_id: continue
                        /\ Goto("loop")
                        /\ UNCHANGED fr
                   ELSE /\ fr' = [Frame0 EXCEPT
                                    !.session_id = Head(sessions).session_id]
                        /\ Goto("parse")
  /\ UNCHANGED << libVars, data, changes, now, db, tx, txAborted, updated_count,
                  result, runStart, hist >>

\* parse_session_file(session_path) / fetch_session(token, org_uuid, session_id)
Parse ==
  /\ pc = "parse"
  /\ LET sid == IF fn = "local" THEN Stem(fr.session_path) ELSE fr.session_id
     IN \/ /\ fr' = [fr EXCEPT !.failed = "parse"]
           /\ Raise("parse")
        \/ /\ fr' = [fr EXCEPT !.session_id = sid,
                               !.session_data = [loglines |-> data[sid]]]
           /\ Goto("query")
  /\ UNCHANGED << libVars, data, changes, now, db, tx, txAborted, sessions, updated_count,
                  result, runStart, hist >>

\* existing = query(...).first(); if not needs_update(...): continue
Query ==
  /\ pc = "query"
  /\ \/ \* the statement fails, as every statement of a failed transaction does
        /\ txAborted' = TRUE
        /\ fr' = [fr EXCEPT !.failed = "query"]
        /\ Raise("query")
     \/ /\ ~txAborted
        /\ LET existing == QueryConversation(tx, fr.session_id)
           IN IF needs_update(existing, fr.session_data)
                THEN /\ fr' = [fr EXCEPT !.existing = existing]
                     /\ Goto("render")
                ELSE /\ fr' = Frame0
                     /\ Goto("loop")
        /\ UNCHANGED txAborted
  /\ UNCHANGED << libVars, data, changes, now, db, tx, sessions, updated_count, result,
                  runStart, hist >>

\* os.makedirs, generate_html / generate_html_from_session_data, metadata
Render ==
  /\ pc = "render"
  /\ \/ /\ fr' = [fr EXCEPT !.failed = "render"]
        /\ Raise("render")
     \/ /\ fr' = [fr EXCEPT
                    !.message_count = Len(fr.session_data.loglines),
                    !.first_message =
                       IF fn = "local"
                         THEN LocalFirstMessage(fr.summary)
                         ELSE FirstStringContent(fr.session_data.loglines, 1)]
        /\ Goto("upsert")
  /\ UNCHANGED << libVars, data, changes, now, db, tx, txAborted, sessions, updated_count,
                  result, runStart, hist >>

\* update the existing Conversation, or add a new one and flush
Upsert ==
  /\ pc = "upsert"
  /\ IF fr.existing # NoRow
       THEN /\ tx' = UpdateConversation(tx, fr.existing, now, fr.message_count,
                                        OutputDir(fr.session_id), fr.first_message)
            /\ fr' = [fr EXCEPT !.conversation_id = fr.existing.id]
            /\ Goto("commit")
            /\ UNCHANGED txAborted
       ELSE \/ \* the INSERT of the flush fails
               /\ txAborted' = TRUE
               /\ fr' = [fr EXCEPT !.failed = "flush"]
               /\ Raise("flush")
               /\ UNCHANGED tx
            \/ /\ tx' = AddConversation(tx, fr.session_id,
                                        IF fn = "local" THEN "local" ELSE "web",
                                        now, fr.message_count,
                                        OutputDir(fr.session_id), fr.first_message)
               /\ fr' = [fr EXCEPT !.conversation_id = Len(tx.convs) + 1]
               /\ Goto("commit")
               /\ UNCHANGED txAborted
  /\ UNCHANGED << libVars, data, changes, now, db, sessions, updated_count, result, runStart, hist >>

\* mutant: the upsert is left to the commit of store_embeddings
Commit_Deferred ==
  /\ pc = "commit"
  /\ Goto("extract")
  /\ UNCHANGED << libVars, data, changes, now, db, tx, txAborted, sessions,
                  updated_count, fr, result, runStart, hist >>

\* db_session.commit() after the upsert; a failed commit is rolled back
Commit ==
  /\ pc = "commit"
  /\ \/ /\ tx' = db
        /\ fr' = [fr EXCEPT !.failed = "commit"]
        /\ Raise("commit")
        /\ UNCHANGED db
     \/ /\ db' = tx
        /\ Goto("extract")
        /\ UNCHANGED << tx, fr >>
  /\ UNCHANGED << libVars, data, changes, now, txAborted, sessions, updated_count, result,
                  runStart, hist >>

\* except Exception: print(...); db_session.rollback(); continue
Except ==
  /\ pc = "except"
  /\ tx' = db
  /\ txAborted' = FALSE
  /\ fr' = Frame0
  /\ Goto("loop")
  /\ UNCHANGED << libVars, data, changes, now, db, sessions, updated_count, result, runStart, hist >>

(***************************************************************************)
(* Embedding sync of an updated session: extract_user_queries and the       *)
(* steps of store_embeddings, inside the inner try block.                   *)
(***************************************************************************)
\* the embedding rows of one conversation in a view
EmbOf(view, cid) == [cemb |-> CembOf(view, cid), memb |-> MembOf(view, cid)]

\* the complete set of rows a store_embeddings call is to leave
NewEmb(cid, summary_text, user_queries, t) ==
  [cemb |-> IF Truthy(summary_text)
              THEN << ConversationEmbedding(cid, Slice(summary_text, StoredChars),
                                            encode_single(summary_text), t) >>
              ELSE <<>>,
   memb |-> [i \in 1..Len(user_queries) |->
               MessageEmbedding(cid, user_queries[i].message_index,
                                Slice(user_queries[i].text, StoredChars),
                                encode_single(user_queries[i].text),
                                user_queries[i].page_number, t)]]

\* user_queries = extract_user_queries(session_data); store_embeddings is
\* entered with (conversation_id, first_message or "", user_queries)
Extract ==
  /\ pc = "extract"
  /\ LET uq == extract_user_queries(fr.session_data, PromptsPerPage)
         st == OrEmpty(fr.first_message)
         cid == fr.conversation_id
     IN /\ \/ /\ fr' = [fr EXCEPT !.user_queries = uq, !.summary_text = st]
              /\ Goto("emb_delete")
           \/ \* get_embedding_service() cannot load the model
              /\ fr' = [fr EXCEPT !.user_queries = uq, !.summary_text = st,
                                  !.failed = "get_embedding_service"]
              /\ Raise("get_embedding_service")
        /\ hist' = [hist EXCEPT ![cid] =
             [called |-> TRUE,
              before |-> EmbOf(db, cid),
              new |-> NewEmb(cid, st, uq, now),
              summary_text |-> st,
              user_queries |-> uq,
              ok |-> FALSE,
              after |-> hist[cid].after,
              prev |-> [ok |-> hist[cid].ok,
                        summary_text |-> hist[cid].summary_text,
                        user_queries |-> hist[cid].user_queries,
                        cemb |-> hist[cid].after.cemb,
                        memb |-> hist[cid].after.memb]]]
  /\ UNCHANGED << libVars, data, changes, now, db, tx, txAborted, sessions, updated_count,
                  result, runStart >>

\* the two DELETE statements
EmbDelete ==
  /\ pc = "emb_delete"
  /\ \/ /\ txAborted' = TRUE
        /\ fr' = [fr EXCEPT !.failed = "delete"]
        /\ Raise("delete")
        /\ UNCHANGED tx
     \/ /\ ~txAborted
        /\ tx' = DeleteEmbeddings(tx, fr.conversation_id)
        /\ Goto("emb_summary")
        /\ UNCHANGED << txAborted, fr >>
  /\ UNCHANGED << libVars, data, changes, now, db, sessions, updated_count, result, runStart, hist >>

\* if summary_text: encode_single and add the ConversationEmbedding
EmbSummary ==
  /\ pc = "emb_summary"
  /\ \/ /\ Truthy(fr.summary_text)
        /\ fr' = [fr EXCEPT !.failed = "encode_single"]
        /\ Raise("encode_single")
        /\ UNCHANGED tx
     \/ /\ tx' = IF Truthy(fr.summary_text)
                   THEN AddConversationEmbedding(tx, fr.conversation_id,
                                                 fr.summary_text, now)
                   ELSE tx
        /\ Goto("emb_batch")
        /\ UNCHANGED fr
  /\ UNCHANGED << libVars, data, changes, now, db, txAborted, sessions, updated_count,
                  result, runStart, hist >>

\* if user_queries: encode_batch and add one MessageEmbedding per query
EmbBatch ==
  /\ pc = "emb_batch"
  /\ \/ /\ Len(fr.user_queries) > 0
        /\ fr' = [fr EXCEPT !.failed = "encode_batch"]
        /\ Raise("encode_batch")
        /\ UNCHANGED tx
     \/ /\ tx' = IF Len(fr.user_queries) > 0
                   THEN AddMessageEmbeddings(tx, fr.conversation_id,
                                             fr.user_queries, now)
                   ELSE tx
        /\ Goto("emb_commit")
        /\ UNCHANGED fr
  /\ UNCHANGED << libVars, data, changes, now, db, txAborted, sessions, updated_count,
                  result, runStart, hist >>

\* db_session.commit() of store_embeddings; a failed commit is rolled back,
\* and when it failed in its flush the session refuses every statement
\* until rollback() is called
EmbCommit ==
  /\ pc = "emb_commit"
  /\ \/ /\ tx' = db
        /\ txAborted' \in BOOLEAN
        /\ fr' = [fr EXCEPT !.failed = "emb_commit"]
        /\ Raise("emb_commit")
        /\ UNCHANGED << db, hist >>
     \/ /\ db' = tx
        /\ hist' = [hist EXCEPT ![fr.conversation_id].ok = TRUE,
                                ![fr.conversation_id].after =
                                   EmbOf(tx, fr.conversation_id)]
        /\ Goto("count")
        /\ UNCHANGED << tx, txAborted, fr >>
  /\ UNCHANGED << libVars, data, changes, now, sessions, updated_count, result,
                  runStart >>

\* except Exception: print(...) of the inner try block: no rollback
EmbExcept ==
  /\ pc = "emb_except"
  /\ Goto("count")
  /\ UNCHANGED << libVars, data, changes, now, db, tx, txAborted, sessions, updated_count,
                  fr, result, runStart, hist >>

\* updated_count += 1, and on to the next entry
Count ==
  /\ pc = "count"
  /\ updated_count' = updated_count + 1
  /\ fr' = Frame0
  /\ Goto("loop")
  /\ UNCHANGED << libVars, data, changes, now, db, tx, txAborted, sessions, result, runStart, hist >>

(***************************************************************************)
(* Return to the caller; sync_all goes on with the web source and then      *)
(* builds its statistics.                                                   *)
(***************************************************************************)
\* the locals of the function die with its frame
Leave ==
  /\ sessions' = <<>>
  /\ updated_count' = 0
  /\ fr' = Frame0
  /\ runStart' = EmptyDb
  /\ UNCHANGED << libVars, data, changes, now, db, tx, txAborted, hist >>

Return ==
  /\ pc = "return"
  /\ CASE allPc = "none" ->
            /\ result' = [result EXCEPT
                            !.of = IF fn = "local" THEN "sync_local_sessions"
                                                   ELSE "sync_web_sessions",
                            !.value = fr.retval]
            /\ fn' = "idle" /\ pc' = "returned"
            /\ Leave
            /\ UNCHANGED << allPc, raised >>
       [] allPc = "local" ->
            /\ result' = [result EXCEPT !.value = fr.retval,
                                        !.local_updated = fr.retval]
            /\ Enter("web")
            /\ allPc' = "web"
            /\ UNCHANGED raised
       [] allPc = "web" ->
            /\ result' = [result EXCEPT
                            !.of = "sync_all",
                            !.value = fr.retval,
                            !.web_updated = fr.retval,
                            !.total_updated = result.local_updated + fr.retval]
            /\ fn' = "idle" /\ pc' = "returned" /\ allPc' = "none"
            /\ Leave
            /\ UNCHANGED raised

\* the caller has looked at what the call returned
Discard ==
  /\ pc = "returned"
  /\ pc' = "idle"
  /\ result' = Result0
  /\ raised' = FALSE
  /\ UNCHANGED << libVars, data, changes, now, db, tx, txAborted, allPc, fn, sessions,
                  updated_count, fr, runStart, hist >>

\* the steps of a running sync function
Step ==
  \/ EnumerateLocal
  \/ EnumerateWeb
  \/ EnumExcept
  \/ LoopHead
  \/ Parse
  \/ Query
  \/ Render
  \/ Upsert
  \/ Commit
  \/ Except
  \/ Extract
  \/ EmbDelete
  \/ EmbSummary
  \/ EmbBatch
  \/ EmbCommit
  \/ EmbExcept
  \/ Count
  \/ Return

Next ==
  \/ ChangeData
  \/ CallSyncLocal
  \/ CallSyncWeb
  \/ CallSyncAll
  \/ Step
  \/ Discard

Spec == Init /\ [][Next]_vars

\* the interpreter runs a called function on: no step is postponed forever
FairSpec == Spec /\ WF_vars(Step)

(***************************************************************************)
(* Direct calls of needs_update and extract_user_queries on any session     *)
(* data: loglines whose content is a string, an empty or whitespace-only    *)
(* string, a structure, or missing.                                         *)
(***************************************************************************)
Contents == { Str("hello", 5), Str("ws", 2), EmptyStr, Struct, None }

\* an existing Conversation with a stored message_count
ExistingRow(mc) == Conversation(1, "s1", "local", 0, mc, OutputDir("s1"), None)

NeedsUpdateArgs ==
  [of : {"needs_update"},
   existing : {NoRow} \cup {ExistingRow(mc) : mc \in 0..MaxStored},
   session_data : [loglines : SeqsUpTo(Contents, MaxStored)],
   prompts_per_page : {PromptsPerPage}]

ExtractArgs ==
  [of : {"extract_user_queries"},
   existing : {NoRow},
   session_data : [loglines : SeqsUpTo(Contents, MaxLoglines)],
   prompts_per_page : {PromptsPerPage, SmallPage}]

FnInit ==
  /\ SyncIdle
  /\ SearchIdle
  /\ ServiceIdle
  /\ fnArgs \in NeedsUpdateArgs \cup ExtractArgs
  /\ fnRet = NoCall

CallNeedsUpdate ==
  /\ fnArgs.of = "needs_update"
  /\ fnRet = NoCall
  /\ fnRet' = [of |-> "needs_update",
               value |-> needs_update(fnArgs.existing, fnArgs.session_data)]
  /\ UNCHANGED << syncVars, searchVars, serviceVars, fnArgs >>

CallExtractUserQueries ==
  /\ fnArgs.of = "extract_user_queries"
  /\ fnRet = NoCall
  /\ fnRet' = [of |-> "extract_user_queries",
               value |-> extract_user_queries(fnArgs.session_data,
                                              fnArgs.prompts_per_page)]
  /\ UNCHANGED << syncVars, searchVars, serviceVars, fnArgs >>

FnNext ==
  \/ CallNeedsUpdate
  \/ CallExtractUserQueries

FnSpec == FnInit /\ [][FnNext]_vars

(***************************************************************************)
(* search_transcripts over the rows a sync has stored.  Similarities are    *)
(* 1 - distance with the cosine distance a whole number of 0..2.            *)
(***************************************************************************)
Distances == 0..2

\* a nullable integer column of a result row
SqlNull == [null |-> TRUE, int |-> 0]
SqlInt(n) == [null |-> FALSE, int |-> n]

\* bool(x) of such a value: None and 0 are false
SqlTruthy(x) == ~x.null /\ x.int # 0

RECURSIVE Digits(_)
\* the decimal digits of a natural number
Digits(n) == IF n < 10 THEN << n >> ELSE Append(Digits(n \div 10), n % 10)

\* format(n, "03d"): at least three digits, padded with zeros
Pad3(n) == [i \in 1..(3 - Len(Digits(n))) |-> 0] \o Digits(n)

\* f"/transcript/{session_id}"
BaseUrl(session_id) == << "transcript", session_id >>

\* mutant: the page number is formatted without padding
PagedUrl_NoPad(session_id, page, message_index) ==
  << "transcript", session_id, << "page-", Digits(page), ".html" >>,
     << "#msg-", Digits(message_index) >> >>

\* f"/transcript/{session_id}/page-{page:03d}.html#msg-{message_index}"
PagedUrl(session_id, page, message_index) ==
  << "transcript", session_id, << "page-", Pad3(page), ".html" >>,
     << "#msg-", Digits(message_index) >> >>

\* 1 - (embedding <=> :embedding)
Similarity(embedding) == 1 - geometry[embedding]

\* the conversation a row joins with: JOIN conversations c ON ... = c.id
JoinedConversation(view, row) ==
  LET match == SelectSeq(view.convs, LAMBDA c : c.id = row.conversation_id)
  IN IF match = <<>> THEN NoRow ELSE match[1]

\* FROM ... JOIN ...: the rows that have a conversation
Joined(view, rows) ==
  SelectSeq(rows, LAMBDA r : JoinedConversation(view, r) # NoRow)

\* mutant: the query has no ORDER BY, so LIMIT keeps any n rows
OrderByDistanceLimit_NoOrder(rows, n) ==
  LET k == Min(n, Len(rows))
      picks == {f \in [1..k -> 1..Len(rows)] :
                  \A a, b \in 1..k : a < b => f[a] # f[b]}
  IN {[j \in 1..k |-> rows[f[j]]] : f \in picks}

\* ORDER BY embedding <=> :embedding LIMIT :limit: every list of the n
\* nearest rows in order of distance; rows at the same distance come in any
\* order
OrderByDistanceLimit(rows, n) ==
  LET k == Min(n, Len(rows))
      dist(i) == geometry[rows[i].embedding]
      picks == {f \in [1..k -> 1..Len(rows)] :
                  /\ \A a, b \in 1..k : a < b =>
                        (f[a] # f[b] /\ dist(f[a]) <= dist(f[b]))
                  /\ \A i \in 1..Len(rows) :
                        (\A a \in 1..k : f[a] # i) =>
                           \A a \in 1..k : dist(f[a]) <= dist(i)}
  IN {[j \in 1..k |-> rows[f[j]]] : f \in picks}

\* the result built from a row of the summary query
SummaryResult(view, row) ==
  LET c == JoinedConversation(view, row)
  IN [conversation_id |-> row.conversation_id,
      text |-> row.summary_text,
      session_id |-> c.session_id,
      source |-> c.source,
      first_message |-> c.first_message,
      similarity |-> Similarity(row.embedding),
      match_type |-> "summary",
      page_number |-> SqlNull,
      message_index |-> SqlNull,
      url |-> BaseUrl(c.session_id)]

\* the result built from a row of the message query
MessageResult(view, row) ==
  LET c == JoinedConversation(view, row)
  IN [conversation_id |-> row.conversation_id,
      text |-> row.message_text,
      session_id |-> c.session_id,
      source |-> c.source,
      first_message |-> c.first_message,
      similarity |-> Similarity(row.embedding),
      match_type |-> "message",
      page_number |-> SqlInt(row.page_number),
      message_index |-> SqlInt(row.message_index),
      url |-> IF SqlTruthy(SqlInt(row.page_number))
                THEN PagedUrl(c.session_id, row.page_number, row.message_index)
                ELSE BaseUrl(c.session_id)]

\* mutant: the merged list is not sorted again
SortBySimilarity_Unsorted(list) == list

RECURSIVE SortBySimilarity(_)
\* results.sort(key=similarity, reverse=True): stable, highest first
SortBySimilarity(list) ==
  IF list = <<>>
    THEN <<>>
    ELSE LET x == list[Len(list)]
             sorted == SortBySimilarity(SubSeq(list, 1, Len(list) - 1))
             k == Cardinality({i \in 1..Len(sorted) :
                                 sorted[i].similarity >= x.similarity})
         IN SubSeq(sorted, 1, k) \o << x >> \o SubSeq(sorted, k + 1, Len(sorted))

\* the lists search_transcripts can return
search_transcripts(view, n) ==
  { LET conv_results == [i \in 1..Len(cr) |-> SummaryResult(view, cr[i])]
        msg_results == [i \in 1..Len(mr) |-> MessageResult(view, mr[i])]
    IN Take(SortBySimilarity(conv_results \o msg_results), n) :
      cr \in OrderByDistanceLimit(Joined(view, view.cemb), n),
      mr \in OrderByDistanceLimit(Joined(view, view.memb), n) }

(***************************************************************************)
(* Stored rows: what a successful sync of two sessions has committed, and   *)
(* possibly a message row of another writer without a page (page_number 0). *)
(***************************************************************************)
Six == [i \in 1..6 |-> Str("hello", 5)]

SearchTranscripts ==
  { <<>>, Hello, << Str("ws", 2), Struct, Str("essay", 1200) >>,
    << Str("hello", 5), Str("essay", 1200) >> }

\* the rows after one more session was synced with success
Synced(view, sid, source, first_message, loglines) ==
  LET cid == Len(view.convs) + 1
      v1 == AddConversation(view, sid, source, 1, Len(loglines),
                            OutputDir(sid), first_message)
      v2 == IF Truthy(OrEmpty(first_message))
              THEN AddConversationEmbedding(v1, cid, OrEmpty(first_message), 1)
              ELSE v1
      uq == extract_user_queries([loglines |-> loglines], PromptsPerPage)
  IN IF uq # <<>> THEN AddMessageEmbeddings(v2, cid, uq, 1) ELSE v2

\* a message row no sync wrote
Unpaged == MessageEmbedding(1, 0, Str("hello", 5), encode_single(Str("hello", 5)), 0, 0)

SyncedDbs ==
  { Synced(Synced(EmptyDb, "s1", "local", LocalFirstMessage(SummaryOf(s)), t1),
           "s2", "web", FirstStringContent(t2, 1), t2) :
      s \in Sessions, t1 \in SearchTranscripts \cup {Six}, t2 \in SearchTranscripts }

StoredDbs ==
  SyncedDbs \cup {[d EXCEPT !.memb = Append(d.memb, Unpaged)] : d \in SyncedDbs}

\* the vectors stored in the two embedding tables
Vectors(view) ==
  {view.cemb[i].embedding : i \in 1..Len(view.cemb)}
    \cup {view.memb[i].embedding : i \in 1..Len(view.memb)}

SearchInit ==
  /\ \E d \in StoredDbs : SyncIdleOn(d)
  /\ FnIdle
  /\ ServiceIdle
  /\ geometry \in [Vectors(db) -> Distances]
  /\ searchArgs \in [query : {Str("hello", 5)}, limit : 0..MaxLimit]
  /\ searched = FALSE
  /\ results = <<>>

Search ==
  /\ ~searched
  /\ results' \in search_transcripts(db, searchArgs.limit)
  /\ searched' = TRUE
  /\ UNCHANGED << syncVars, fnVars, serviceVars, geometry, searchArgs >>

SearchNext == Search

SearchSpec == SearchInit /\ [][SearchNext]_vars

(***************************************************************************)
(* The embedding service of embeddings.py: the module global, the lazily    *)
(* loaded model of each instance, and a caller that asks for the service    *)
(* and then encodes with the instance it was given.                         *)
(***************************************************************************)
ModelNames == {"all-MiniLM-L6-v2", "other-model"}

\* self._model is None
NotLoaded == ""

\* EmbeddingService.__init__
EmbeddingService(model_name) == [model_name |-> model_name, model |-> NotLoaded]

\* mutant: the cached instance is returned whatever model is asked for
get_embedding_service_IgnoreName(global, objects, model_name) ==
  IF global = 0
    THEN [global |-> Len(objects) + 1,
          objects |-> Append(objects, EmbeddingService(model_name))]
    ELSE [global |-> global, objects |-> objects]

\* get_embedding_service: the global and the objects after the call
get_embedding_service(global, objects, model_name) ==
  IF global = 0 \/ objects[global].model_name # model_name
    THEN [global |-> Len(objects) + 1,
          objects |-> Append(objects, EmbeddingService(model_name))]
    ELSE [global |-> global, objects |-> objects]

\* a call of get_embedding_service(model_name) by the caller
GetEmbeddingService ==
  /\ Len(calls) < MaxCalls
  /\ \E model_name \in ModelNames :
       LET after == get_embedding_service(cached, instances, model_name)
       IN /\ cached' = after.global
          /\ instances' = after.objects
          /\ embedding_service' = after.global
          /\ calls' = Append(calls, [op |-> "get_embedding_service",
                                     model_name |-> model_name,
                                     instance |-> after.global,
                                     loaded |-> FALSE,
                                     used |-> NotLoaded])
  /\ UNCHANGED << syncVars, fnVars, searchVars >>

\* the model property of an instance: the outcomes of reading it. The model
\* is loaded when there is none yet, and the load can raise
model(self) ==
  IF self.model = NotLoaded
    THEN { [self |-> [self EXCEPT !.model = self.model_name],
            loaded |-> TRUE, used |-> self.model_name],
           [self |-> self, loaded |-> FALSE, used |-> NotLoaded] }
    ELSE { [self |-> self, loaded |-> FALSE, used |-> self.model] }

\* the record of a method call on the caller's instance
MethodCall(op, outcome) ==
  [op |-> op,
   model_name |-> outcome.self.model_name,
   instance |-> embedding_service,
   loaded |-> outcome.loaded,
   used |-> outcome.used]

\* encode, and encode_single and encode_batch through it
Encode ==
  /\ Len(calls) < MaxCalls
  /\ embedding_service # 0
  /\ \E outcome \in model(instances[embedding_service]) :
       /\ instances' = [instances EXCEPT ![embedding_service] = outcome.self]
       /\ calls' = Append(calls, MethodCall("encode", outcome))
  /\ UNCHANGED << syncVars, fnVars, searchVars, cached, embedding_service >>

\* the embedding_dim property
EmbeddingDim ==
  /\ Len(calls) < MaxCalls
  /\ embedding_service # 0
  /\ \E outcome \in model(instances[embedding_service]) :
       /\ instances' = [instances EXCEPT ![embedding_service] = outcome.self]
       /\ calls' = Append(calls, MethodCall("embedding_dim", outcome))
  /\ UNCHANGED << syncVars, fnVars, searchVars, cached, embedding_service >>

ServiceInit ==
  /\ SyncIdle
  /\ FnIdle
  /\ SearchIdle
  /\ ServiceIdle

ServiceNext ==
  \/ GetEmbeddingService
  \/ Encode
  \/ EmbeddingDim

ServiceSpec == ServiceInit /\ [][ServiceNext]_vars

(***************************************************************************)
(* Properties.                                                              *)
(***************************************************************************)

\* C1: embedding replacement is atomic per conversation: whatever fails in
\* store_embeddings, every committed state holds for the conversation
\* either the embedding rows it had before the call or the complete new
\* set of the call, never a part of one.
C1_AtomicReplacement ==
  \A cid \in ConvIds :
    hist[cid].called =>
      \/ EmbOf(db, cid) = hist[cid].before
      \/ EmbOf(db, cid) = hist[cid].new

\* C3: at the start of every session iteration the shared database session
\* holds no uncommitted change left over from an earlier session, so a
\* rollback discards only the current session's changes.
C3_NoLeftoverAtIterationStart ==
  (pc = "loop" /\ sessions # <<>>) => tx = db

\* store_embeddings has returned normally for the session of this iteration
StoredOk == pc = "count" /\ fr.failed = ""

\* C2: once a store_embeddings call has returned normally, the committed
\* MessageEmbedding rows of the conversation are exactly one row per entry
\* of the call's user_queries, in order, with the message_index and
\* page_number supplied; no row of an earlier call remains.
C2_MessageRowsExact ==
  StoredOk =>
    LET rows == MembOf(db, fr.conversation_id)
    IN /\ Len(rows) = Len(fr.user_queries)
       /\ \A i \in 1..Len(rows) :
            /\ rows[i].message_index = fr.user_queries[i].message_index
            /\ rows[i].page_number = fr.user_queries[i].page_number

\* C2 witness: a normal return over a conversation whose earlier rows had
\* another message_index than the new ones
C2_Witness ==
  /\ StoredOk
  /\ fr.user_queries # <<>>
  /\ hist[fr.conversation_id].before.memb # <<>>
  /\ hist[fr.conversation_id].before.memb[1].message_index
       # fr.user_queries[1].message_index

\* the row of a session among the rows committed when the call started
RowAtStart(sid) == FirstMatch(runStart.convs, sid, 1)

\* C4: when the render step raises for a session, its Conversation row is
\* as it was before the run (absent if it was new), the handling of the
\* failure neither counts the session nor changes a committed row, and the
\* loop goes on with every later entry: it only returns with none left.
C4_RenderFailureIsolated ==
  /\ [](fr.failed = "render" =>
          QueryConversation(db, fr.session_id) = RowAtStart(fr.session_id))
  /\ [][fr.failed = "render" =>
          /\ updated_count' = updated_count
          /\ db' = db
          /\ QueryConversation(tx', fr.session_id) = RowAtStart(fr.session_id)
          /\ sessions' = sessions
          /\ pc' = "loop"]_vars
  /\ [](pc = "return" => sessions = <<>>)

\* C4 witness: the renderer failed for a session that has a row, with a
\* later entry still to come
C4_Witness ==
  /\ pc = "except"
  /\ fr.failed = "render"
  /\ RowAtStart(fr.session_id) # NoRow
  /\ sessions # <<>>

\* C5: an embedding sync failure after the Conversation commit leaves the
\* committed row with its updated fields (committed Conversation rows change
\* in the commit after an upsert only), the session is still counted, and
\* no later session fails because of it: the lookup of a later session
\* never meets a transaction the failure left unusable.
C5_EmbeddingFailureIsolated ==
  /\ [][pc # "commit" => db'.convs = db.convs]_vars
  /\ [][pc = "emb_except" => pc' = "count"]_vars
  /\ [][pc = "count" => updated_count' = updated_count + 1]_vars
  /\ [](pc = "query" => ~txAborted)

C7_EnumerationFailure ==
  /\ [](fr.failed \in EnumPlaces =>
          /\ ~raised
          /\ pc \in {"enum_except", "return"}
          /\ db = runStart
          /\ sessions = <<>>)
  /\ [][pc = "enum_except" => (pc' = "return" /\ fr'.retval = 0 /\ db' = db)]_vars
  /\ [][(pc = "return" /\ fr.failed \in EnumPlaces) =>
          /\ db' = db
          /\ result'.value = 0
          /\ (allPc = "local" => (fn' = "web" /\ pc' = "enum"))
          /\ (allPc # "local" => pc' = "returned")]_vars

\* C7 witness: the enumeration failed with committed rows in the database
C7_Witness ==
  /\ pc = "enum_except"
  /\ db.convs # <<>>
  /\ db.memb # <<>>

\* at most one row per key in a table
UniqueSessionId(rows) ==
  \A i, j \in 1..Len(rows) : i # j => rows[i].session_id # rows[j].session_id

\* C8: in every reachable state, committed or inside the transaction, there
\* is at most one Conversation row per session_id.
C8_OneRowPerSession ==
  UniqueSessionId(db.convs) /\ UniqueSessionId(tx.convs)

\* C8 witness: the web source has updated in place the row the local source
\* created for the same session_id
C8_Witness ==
  /\ fn = "web"
  /\ pc = "extract"
  /\ fr.existing # NoRow
  /\ fr.existing.source = "local"
  /\ Len(db.convs) = 1

\* C9: a conversation never has more than one committed summary row; after
\* a normal return of store_embeddings it has one if summary_text is
\* non-empty and none if it is empty, and no message rows either when the
\* message list is empty too.
C9_SummaryRow ==
  /\ \A cid \in ConvIds : Len(CembOf(db, cid)) <= 1
  /\ StoredOk =>
       /\ Len(CembOf(db, fr.conversation_id))
            = (IF fr.summary_text # EmptyStr THEN 1 ELSE 0)
       /\ (fr.summary_text = EmptyStr /\ fr.user_queries = <<>>) =>
            MembOf(db, fr.conversation_id) = <<>>

\* C9 witness: a normal return with empty summary and empty message list
\* over a conversation that had a summary row and message rows
C9_Witness ==
  /\ StoredOk
  /\ fr.summary_text = EmptyStr
  /\ fr.user_queries = <<>>
  /\ hist[fr.conversation_id].before.cemb # <<>>
  /\ hist[fr.conversation_id].before.memb # <<>>

\* the columns idempotence is about
StoredText(rows) ==
  [i \in 1..Len(rows) |-> rows[i].summary_text]
StoredMessages(rows) ==
  [i \in 1..Len(rows) |->
     << rows[i].message_index, rows[i].message_text, rows[i].page_number >>]

\* the call that has returned repeats the arguments of the call before it
\* for the same conversation, which returned normally too
SameCallTwice ==
  /\ StoredOk
  /\ hist[fr.conversation_id].prev.ok
  /\ hist[fr.conversation_id].prev.summary_text = fr.summary_text
  /\ hist[fr.conversation_id].prev.user_queries = fr.user_queries

\* C10: store_embeddings is idempotent: a second call in a row with the
\* same arguments leaves as many summary and message rows, with the same
\* stored texts, message indexes and page numbers, as the first did.
C10_Idempotent ==
  SameCallTwice =>
    /\ StoredText(CembOf(db, fr.conversation_id))
         = StoredText(hist[fr.conversation_id].prev.cemb)
    /\ StoredMessages(MembOf(db, fr.conversation_id))
         = StoredMessages(hist[fr.conversation_id].prev.memb)

\* C10 witness: the second call has regenerated non-empty rows
C10_Witness ==
  /\ SameCallTwice
  /\ fr.user_queries # <<>>
  /\ fr.summary_text # EmptyStr
  /\ MembOf(db, fr.conversation_id) # hist[fr.conversation_id].prev.memb

\* a plain string with a non-whitespace character
Eligible(content) ==
  content.kind = "str" /\ content.len > 0 /\ content.base # "ws"

\* positions (1-based) of the eligible loglines
EligiblePositions(loglines) ==
  {i \in 1..Len(loglines) : Eligible(loglines[i])}

\* needs_update has returned for an existing Conversation
NeedsUpdateOfExisting ==
  fnRet.of = "needs_update" /\ fnArgs.existing # NoRow

\* C11 as stated: for an existing Conversation needs_update is true exactly
\* when the number of eligible messages of the session differs from the
\* stored message_count.
C11_EligibleCountDecides ==
  NeedsUpdateOfExisting =>
    (fnRet.value <=>
       Cardinality(EligiblePositions(fnArgs.session_data.loglines))
         # fnArgs.existing.message_count)

\* C11 amended: for an existing Conversation needs_update is true exactly
\* when the number of loglines of the session, eligible or not, differs
\* from the stored message_count, whatever the contents are.
C11_LoglineCountDecides ==
  NeedsUpdateOfExisting =>
    (fnRet.value <=>
       Cardinality(DOMAIN fnArgs.session_data.loglines)
         # fnArgs.existing.message_count)

\* C11 witness: the session grew by an ineligible logline only, and
\* needs_update is true
C11_Witness ==
  /\ NeedsUpdateOfExisting
  /\ fnRet.value
  /\ Cardinality(EligiblePositions(fnArgs.session_data.loglines))
       = fnArgs.existing.message_count
  /\ fnArgs.existing.message_count > 0

\* C12: needs_update is true for every session data when there is no
\* stored Conversation, a session without loglines included.
C12_NewAlwaysNeedsUpdate ==
  (fnRet.of = "needs_update" /\ fnArgs.existing = NoRow) => fnRet.value

\* C12 witness: needs_update returned for no Conversation and no loglines
C12_Witness ==
  /\ fnRet.of = "needs_update"
  /\ fnArgs.existing = NoRow
  /\ fnArgs.session_data.loglines = <<>>
  /\ fnRet.value

\* extract_user_queries has returned
Extracted == fnRet.of = "extract_user_queries"

\* the number of eligible loglines before the logline at message_index
EligibleBefore(loglines, message_index) ==
  Cardinality({i \in EligiblePositions(loglines) : i - 1 < message_index})

\* C14: the k-th eligible message, k counted from 0 among the eligible
\* messages only, gets page floor(k / prompts_per_page) + 1: with 5 per
\* page, positions 0 to 4 get page 1 and positions 5 to 9 get page 2,
\* whatever ineligible entries lie between them.
C14_PageOfEligiblePosition ==
  Extracted =>
    \A j \in 1..Len(fnRet.value) :
      LET k == EligibleBefore(fnArgs.session_data.loglines,
                              fnRet.value[j].message_index)
      IN /\ fnRet.value[j].page_number = (k \div fnArgs.prompts_per_page) + 1
         /\ (fnArgs.prompts_per_page = 5 /\ k \in 0..4) =>
              fnRet.value[j].page_number = 1
         /\ (fnArgs.prompts_per_page = 5 /\ k \in 5..9) =>
              fnRet.value[j].page_number = 2

\* C14 witness: with 5 per page, a message on page 2 that an ineligible
\* entry pushed beyond the sixth logline
C14_Witness ==
  /\ Extracted
  /\ fnArgs.prompts_per_page = 5
  /\ \E j \in 1..Len(fnRet.value) :
       /\ fnRet.value[j].page_number = 2
       /\ fnRet.value[j].message_index > 5

\* C17: extract_user_queries returns, in transcript order, exactly one entry
\* per eligible logline and none for any other logline, and the
\* message_index of an entry is the position of its logline among all the
\* loglines.
C17_OneEntryPerEligibleLogline ==
  Extracted =>
    LET loglines == fnArgs.session_data.loglines
        out == fnRet.value
    IN /\ Len(out) = Cardinality(EligiblePositions(loglines))
       /\ {out[j].message_index + 1 : j \in 1..Len(out)}
            = EligiblePositions(loglines)
       /\ \A j \in 1..Len(out) :
            j > 1 => out[j - 1].message_index < out[j].message_index

\* C17 witness: an entry that follows a structured, a missing, an empty and
\* a whitespace-only content
C17_Witness ==
  /\ Extracted
  /\ fnRet.value # <<>>
  /\ LET loglines == fnArgs.session_data.loglines
         before == {loglines[i] : i \in 1..fnRet.value[1].message_index}
     IN {Struct, None, EmptyStr, Str("ws", 2)} \subseteq before

\* C13: search_transcripts returns at most limit results in non-increasing
\* order of similarity; a "message" result has a page_number and a
\* message_index, a "summary" result has neither.
C13_SearchResults ==
  searched =>
    /\ Len(results) <= searchArgs.limit
    /\ \A i, j \in 1..Len(results) :
         i < j => results[i].similarity >= results[j].similarity
    /\ \A i \in 1..Len(results) :
         /\ results[i].match_type \in {"summary", "message"}
         /\ results[i].match_type = "message" =>
              (~results[i].page_number.null /\ ~results[i].message_index.null)
         /\ results[i].match_type = "summary" =>
              (results[i].page_number.null /\ results[i].message_index.null)

\* C13 witness: a list cut to a limit of at least 2, with a summary and a
\* message of different similarity in it
C13_Witness ==
  /\ searched
  /\ searchArgs.limit >= 2
  /\ Len(results) = searchArgs.limit
  /\ Len(db.cemb) + Len(db.memb) > searchArgs.limit
  /\ \E i, j \in 1..Len(results) :
       /\ results[i].match_type = "message"
       /\ results[j].match_type = "summary"
       /\ results[i].similarity > results[j].similarity

RECURSIVE DigitsValue(_)
\* the number a sequence of decimal digits writes
DigitsValue(d) ==
  IF d = <<>> THEN 0
  ELSE 10 * DigitsValue(SubSeq(d, 1, Len(d) - 1)) + d[Len(d)]

\* url is the paged locator of a page below 1000 and a message index
IsPagedLocator(url, session_id, page, message_index) ==
  /\ Len(url) = 4
  /\ url[1] = "transcript" /\ url[2] = session_id
  /\ url[3][1] = "page-" /\ url[3][3] = ".html"
  /\ Len(url[3][2]) = 3 /\ DigitsValue(url[3][2]) = page
  /\ url[4][1] = "#msg-" /\ DigitsValue(url[4][2]) = message_index

\* C18: the url of a summary result is the base page of its conversation;
\* the url of a message result is the paged locator when its page number
\* is present and the base page otherwise; a message row stored by sync has
\* a page number of at least 1, so with only such rows stored the base page
\* is never the url of a message result.
C18_ResultUrls ==
  searched =>
    \A i \in 1..Len(results) :
      LET r == results[i]
          base == << "transcript", r.session_id >>
          present == ~r.page_number.null /\ r.page_number.int # 0
      IN /\ r.match_type = "summary" => r.url = base
         /\ (r.match_type = "message" /\ present) =>
              IsPagedLocator(r.url, r.session_id, r.page_number.int,
                             r.message_index.int)
         /\ (r.match_type = "message" /\ ~present) => r.url = base
         /\ (r.match_type = "message" /\ db \in SyncedDbs) =>
              (r.page_number.int >= 1 /\ r.url # base)

\* C18 witness: a summary, a message of page 2 and a message without a
\* page in one list
C18_Witness ==
  /\ searched
  /\ \E i, j, k \in 1..Len(results) :
       /\ results[i].match_type = "summary"
       /\ results[j].match_type = "message" /\ results[j].page_number.int = 2
       /\ results[k].match_type = "message" /\ results[k].page_number.int = 0

RECURSIVE SortDescending(_)
\* a sequence of numbers, highest first
SortDescending(xs) ==
  IF xs = <<>>
    THEN <<>>
    ELSE LET m == CHOOSE i \in 1..Len(xs) : \A j \in 1..Len(xs) : xs[i] >= xs[j]
         IN << xs[m] >> \o
            SortDescending([j \in 1..(Len(xs) - 1) |->
                              IF j < m THEN xs[j] ELSE xs[j + 1]])

\* the similarities of both collections, every row ranked in one pass
UnionSimilarities ==
  SortDescending(
    [i \in 1..Len(Joined(db, db.cemb)) |-> 1 - geometry[Joined(db, db.cemb)[i].embedding]]
      \o [i \in 1..Len(Joined(db, db.memb)) |-> 1 - geometry[Joined(db, db.memb)[i].embedding]])

\* C19: truncating twice loses nothing: the similarities of the returned
\* list are, as a multiset, those of the limit highest entries of the union
\* of both collections.
C19_TruncatingTwiceLosesNothing ==
  searched =>
    SortDescending([i \in 1..Len(results) |-> results[i].similarity])
      = SubSeq(UnionSimilarities, 1, Min(searchArgs.limit, Len(UnionSimilarities)))

\* C19 witness: the message query and the merged list were cut, and the
\* list mixes both collections
C19_Witness ==
  /\ searched
  /\ searchArgs.limit >= 2
  /\ Len(db.cemb) >= 2
  /\ Len(db.memb) > searchArgs.limit
  /\ \E i, j \in 1..Len(results) :
       /\ results[i].match_type = "summary"
       /\ results[j].match_type = "message"
       /\ results[i].similarity # results[j].similarity

(***************************************************************************)
(* The embedding service.                                                   *)
(***************************************************************************)
IsGet(i) == calls[i].op = "get_embedding_service"

Gets == { i \in DOMAIN calls : IsGet(i) }

Uses == { i \in DOMAIN calls : ~IsGet(i) }

\* the last get_embedding_service call before call i
AskedBefore(i) == CHOOSE j \in Gets : j < i /\ \A k \in Gets : k < i => k <= j

\* the calls i, j are get_embedding_service calls with no other one between
NextGet(i, j) ==
  /\ i \in Gets /\ j \in Gets /\ i < j
  /\ \A k \in Gets : ~(i < k /\ k < j)

\* a step that is a call of get_embedding_service
GetStep ==
  /\ Len(calls') = Len(calls) + 1
  /\ calls'[Len(calls')].op = "get_embedding_service"

\* C15: get_embedding_service loads no model, the first use of an instance
\* that gets a model loads it and no later use loads it again; calls that
\* follow each other with the same model name return the same instance, a
\* call with another name returns a new instance that becomes the cached
\* one, and every use is a use of the instance and of the model that the
\* last get_embedding_service call before it named.
C15_LazyCachedByName ==
  /\ [][GetStep =>
          /\ \A k \in DOMAIN instances : instances'[k] = instances[k]
          /\ \A k \in DOMAIN instances' \ DOMAIN instances :
               instances'[k].model = NotLoaded]_vars
  /\ [](\A i \in Uses :
          /\ calls[i].instance = calls[AskedBefore(i)].instance
          /\ calls[i].used \in {NotLoaded, calls[AskedBefore(i)].model_name}
          /\ calls[i].loaded => calls[i].used # NotLoaded
          /\ calls[i].used # NotLoaded =>
               (calls[i].loaded <=>
                  \A j \in Uses :
                     j < i /\ calls[j].instance = calls[i].instance
                       => calls[j].used = NotLoaded))
  /\ [](\A i, j \in Gets :
          NextGet(i, j) =>
            IF calls[i].model_name = calls[j].model_name
              THEN calls[j].instance = calls[i].instance
              ELSE /\ calls[j].instance # calls[i].instance
                   /\ \A k \in Uses : k < j => calls[k].instance # calls[j].instance)
  /\ [](\A i \in Gets :
          /\ instances[calls[i].instance].model_name = calls[i].model_name
          /\ i = Len(calls) => cached = calls[i].instance)

\* a model was asked for, loaded by the first encode and used again by the
\* second without a load; then another model was asked for and the next
\* encode loaded and used that one
C15_Witness ==
  /\ Len(calls) = 5
  /\ IsGet(1) /\ ~IsGet(2) /\ ~IsGet(3) /\ IsGet(4) /\ ~IsGet(5)
  /\ calls[2].loaded /\ ~calls[3].loaded
  /\ calls[3].used = calls[1].model_name
  /\ calls[4].model_name # calls[1].model_name
  /\ calls[5].loaded
  /\ calls[5].used = calls[4].model_name

(***************************************************************************)
(* Order of the steps of a run.                                             *)
(***************************************************************************)
\* the places of extract_user_queries and store_embeddings
EmbeddingSyncPcs ==
  {"extract", "emb_delete", "emb_summary", "emb_batch", "emb_commit"}

\* the places of the loop body where a session is being processed
SessionPcs ==
  {"parse", "query", "render", "upsert", "commit", "except", "emb_except",
   "count"} \cup EmbeddingSyncPcs

\* the session_id the frame is processing, known from the list entry on
SessionOfFrame(frame) ==
  IF frame.session_path # <<>> THEN Stem(frame.session_path) ELSE frame.session_id

\* the session_id of a list entry
SessionOfEntry(source, entry) ==
  IF source = "local" THEN Stem(entry.path) ELSE entry.session_id

\* C16: inside sync_all the web source is entered only from the return of
\* sync_local_sessions, with no local entry left, and never the other way;
\* the next list entry is taken only at the loop head, where no session is
\* being processed, and it is the first entry left; while a session is
\* processed the frame stays with it; Conversation rows are written only by
\* the upsert, which is reached only from a renderer that returned; the
\* embedding sync starts only from the commit of the upsert and runs on the
\* committed row; updated_count grows only at the count step, which is
\* reached only from the end of the embedding sync attempt.
C16_OrderWithinRun ==
  /\ [](allPc = "local" => fn = "local")
  /\ [](allPc = "web" => fn = "web")
  /\ [][allPc = "web" => allPc' # "local"]_vars
  /\ [][allPc # "web" /\ allPc' = "web" =>
          /\ allPc = "local" /\ pc = "return"
          /\ sessions = <<>> /\ sessions' = <<>>
          /\ pc' = "enum"]_vars
  /\ [](pc = "loop" => fr = Frame0)
  /\ [][sessions' # sessions =>
          \/ pc = "enum"
          \/ /\ pc = "loop"
             /\ sessions' = Tail(sessions)
             /\ pc' \in {"parse", "loop"}
             /\ pc' = "parse" =>
                  SessionOfFrame(fr') = SessionOfEntry(fn, Head(sessions))]_vars
  /\ [][(pc \in SessionPcs) /\ (pc' \in SessionPcs) =>
          SessionOfFrame(fr') = SessionOfFrame(fr)]_vars
  /\ [][tx'.convs # tx.convs => pc = "upsert" \/ tx' = db]_vars
  /\ [][db'.convs # db.convs => pc = "commit"]_vars
  /\ [][pc' = "upsert" /\ pc # "upsert" =>
          fr'.failed = "" /\ pc = "render"]_vars
  /\ [][pc' = "extract" /\ pc # "extract" => pc = "commit" /\ db' = tx]_vars
  /\ [](pc \in EmbeddingSyncPcs =>
          /\ db.convs = tx.convs
          /\ fr.conversation_id \in DOMAIN db.convs
          /\ db.convs[fr.conversation_id].session_id = fr.session_id
          /\ db.convs[fr.conversation_id].message_count = fr.message_count)
  /\ [][tx'.cemb # tx.cemb \/ tx'.memb # tx.memb =>
          pc \in EmbeddingSyncPcs \/ tx' = db]_vars
  /\ [][updated_count' > updated_count => pc = "count"]_vars
  /\ [][pc' = "count" /\ pc # "count" => pc \in {"emb_commit", "emb_except"}]_vars
  /\ [][pc' = "emb_except" /\ pc # "emb_except" => pc \in EmbeddingSyncPcs]_vars
  /\ [](pc = "count" =>
          /\ hist[fr.conversation_id].called
          /\ hist[fr.conversation_id].ok \/ fr.failed \in EmbedPlaces)

\* sync_all has counted a local session and is about to count a web session
\* whose embedding sync has ended
C16_Witness ==
  /\ allPc = "web"
  /\ result.local_updated >= 1
  /\ pc = "count"
  /\ hist[fr.conversation_id].ok

(***************************************************************************)
(* A run over data that did not change.                                     *)
(***************************************************************************)
\* the view holds a Conversation row of the session whose message_count is
\* the number of loglines the session has now
UpToDate(view, sid) ==
  \E c \in DOMAIN view.convs :
     /\ view.convs[c].session_id = sid
     /\ view.convs[c].message_count = Len(data[sid])

\* the places of the loop body after needs_update returned True
UpdatePcs ==
  {"render", "upsert", "commit", "emb_except", "count"} \cup EmbeddingSyncPcs

\* the sessions the running function has brought up to date so far
BroughtUpToDate ==
  { s \in Sessions : ~UpToDate(runStart, s) /\ UpToDate(db, s) }

\* C20: when the committed Conversation row of a session has the number of
\* loglines the session has, needs_update is False for it in every later
\* iteration that reaches it, and the iteration ends at the loop head (or in
\* the handler of a failed lookup) with no row changed and nothing counted;
\* the renderer, the upsert, the embedding sync and the count are reached
\* only for a session that was not up to date when the function was called;
\* committed rows change only there; and the value a function returns is the
\* number of sessions it brought up to date, so a run that starts with every
\* session up to date returns 0.
C20_FixpointOnUnchangedData ==
  /\ [](pc = "query" /\ ~txAborted /\ UpToDate(db, fr.session_id) =>
          ~needs_update(QueryConversation(tx, fr.session_id), fr.session_data))
  /\ [][pc = "query" /\ UpToDate(db, fr.session_id) =>
          /\ pc' \in {"loop", "except"}
          /\ db' = db /\ tx' = tx
          /\ updated_count' = updated_count]_vars
  /\ [](pc \in UpdatePcs => ~UpToDate(runStart, fr.session_id))
  /\ [][db' # db => pc \in {"commit", "emb_commit"}]_vars
  /\ [](pc = "return" => fr.retval = Cardinality(BroughtUpToDate))
  /\ [](pc = "return" /\ (\A s \in Sessions : UpToDate(runStart, s)) =>
          fr.retval = 0)

\* a later call, on data that did not change, is about to look up a session
\* that an earlier call updated with a complete embedding sync
C20_Witness ==
  /\ now = 2 /\ changes = 0
  /\ pc = "query"
  /\ UpToDate(db, fr.session_id)
  /\ \E c \in DOMAIN db.convs :
       /\ db.convs[c].session_id = fr.session_id
       /\ db.convs[c].last_updated = 1
       /\ hist[c].ok

(***************************************************************************)
(* A failed embedding sync.                                                 *)
(***************************************************************************)
\* the iteration that called store_embeddings for the conversation is still
\* running
InAttempt(c) ==
  /\ pc \in EmbeddingSyncPcs \cup {"emb_except", "count"}
  /\ fr.conversation_id = c

\* the last embedding sync of the conversation failed, its iteration is
\* over, and the committed row still has the session's number of loglines
FailedSync(c) ==
  /\ c \in DOMAIN db.convs
  /\ hist[c].called /\ ~hist[c].ok
  /\ ~InAttempt(c)
  /\ db.convs[c].message_count = Len(data[db.convs[c].session_id])

\* the failed call had rows to store
HadRows(c) == hist[c].new.cemb # <<>> \/ hist[c].new.memb # <<>>

\* C21: after store_embeddings failed for a session whose row was committed,
\* and for as long as the session has the number of loglines of that row,
\* every lookup of the session finds needs_update False, no later iteration
\* reaches the renderer, the upsert or the embedding sync for it, the record
\* of the failed call stays the last one, and the committed embedding rows
\* of the conversation never become the set the failed call had to store.
C21_FailedSyncNeverRetried ==
  /\ [](\A c \in ConvIds :
          FailedSync(c) /\ pc = "query" /\ ~txAborted
            /\ fr.session_id = db.convs[c].session_id
          => ~needs_update(QueryConversation(tx, fr.session_id), fr.session_data))
  /\ [](\A c \in ConvIds :
          FailedSync(c) =>
            ~(pc \in UpdatePcs /\ fr.session_id = db.convs[c].session_id))
  /\ [][\A c \in ConvIds :
          FailedSync(c)
            /\ Len(data'[db.convs[c].session_id]) = Len(data[db.convs[c].session_id])
          =>
            /\ FailedSync(c)'
            /\ hist'[c] = hist[c]
            /\ db'.convs[c] = db.convs[c]]_vars
  /\ [](\A c \in ConvIds :
          FailedSync(c) /\ HadRows(c) => EmbOf(db, c) # hist[c].new)

\* a later call, on data that did not change, is about to look up a session
\* whose embedding sync failed in the call before, with rows left to store
C21_Witness ==
  /\ now = 2 /\ changes = 0
  /\ pc = "query"
  /\ \E c \in ConvIds :
       /\ FailedSync(c)
       /\ HadRows(c)
       /\ db.convs[c].session_id = fr.session_id
       /\ db.convs[c].last_updated = 1

(***************************************************************************)
(* The columns an update leaves alone.                                      *)
(***************************************************************************)
\* the columns of a Conversation that no assignment of the update touches
Identity(row) ==
  [id |-> row.id, session_id |-> row.session_id, source |-> row.source,
   created_at |-> row.created_at]

\* a step of the upsert that found an existing Conversation
UpdateStep == pc = "upsert" /\ fr.existing # NoRow

\* C22: a committed Conversation stays, with its id, session_id, source and
\* created_at, through every step of every sync function; a row of the
\* transaction keeps the four as long as it is there; and the update of an
\* existing Conversation changes that one row only, in no other column than
\* last_updated, message_count, html_path and first_message, whichever
\* source wrote the row and whichever updates it.
C22_UpdateKeepsIdentity ==
  /\ [][\A c \in DOMAIN db.convs :
          /\ c \in DOMAIN db'.convs
          /\ Identity(db'.convs[c]) = Identity(db.convs[c])]_vars
  /\ [][\A c \in DOMAIN tx.convs \cap DOMAIN tx'.convs :
          Identity(tx'.convs[c]) = Identity(tx.convs[c])]_vars
  /\ [][UpdateStep =>
          /\ DOMAIN tx'.convs = DOMAIN tx.convs
          /\ tx'.cemb = tx.cemb /\ tx'.memb = tx.memb
          /\ \A c \in DOMAIN tx.convs :
               IF tx.convs[c].session_id = fr.session_id
                 THEN /\ Identity(tx'.convs[c]) = Identity(tx.convs[c])
                      /\ tx'.convs[c].last_updated = now
                      /\ tx'.convs[c].message_count = fr.message_count
                      /\ tx'.convs[c].html_path = OutputDir(fr.session_id)
                      /\ tx'.convs[c].first_message = fr.first_message
                 ELSE tx'.convs[c] = tx.convs[c]]_vars
  /\ [](\A c \in DOMAIN db.convs :
          /\ db.convs[c].id = c
          /\ db.convs[c].source \in {"local", "web"}
          /\ db.convs[c].created_at <= db.convs[c].last_updated)

\* sync_web_sessions has updated, and is about to commit, a Conversation
\* that sync_local_sessions created in an earlier call
C22_Witness ==
  /\ fn = "web" /\ pc = "commit"
  /\ fr.existing # NoRow
  /\ fr.existing.source = "local"
  /\ tx.convs[fr.existing.id].source = "local"
  /\ tx.convs[fr.existing.id].message_count # fr.existing.message_count
  /\ tx.convs[fr.existing.id].last_updated > tx.convs[fr.existing.id].created_at

=============================================================================
